---------------------------- MODULE Spec2Model ----------------------------
(***************************************************************************)
(* Model of the digital faxing application: the cipher                     *)
(* (utils/encryption_utils.py), the document store (utils/db.py), the      *)
(* content and field extractors (utils/ocr_utils.py) and the               *)
(* receive-and-process handler receive_fax (app.py).                       *)
(*                                                                         *)
(* Scaling.  Text is a sequence of characters, a character is its code     *)
(* point in a small code page (CodePage), a byte has ByteBits bits, a     *)
(* cipher block has BlockLen bytes, and AES is replaced by a keyed         *)
(* Feistel permutation of a block.  Padding, CBC chaining, base64 and      *)
(* UTF-8 are computed as the libraries compute them, at that width.        *)
(***************************************************************************)
EXTENDS Integers, Sequences, FiniteSets, TLC

VARIABLES
    AES_KEY,    \* encryption_utils.AES_KEY, fixed for the life of the process
    rows,       \* table fax_forms, in insertion order
    now,        \* the store's clock (CURRENT_TIMESTAMP, in seconds)
    run,        \* the receive_fax request in progress
    audit,      \* ghost: what each stored row was written from
    call,       \* the last direct call of a utility function and its result
    conns       \* the db.py calls of concurrent requests, one connection each

vars == <<AES_KEY, rows, now, run, audit, call, conns>>

---------------------------------------------------------------------------
(* Characters and text *)

\* The code page: the character at position i+1 has code point i.  The
\* lower-case letters come first, then the upper-case letters in use, then
\* punctuation; these are one byte in UTF-8.  The last two entries are a
\* lower/upper case pair of two-byte characters.
CodePage ==
    << "a","b","c","d","e","f","g","h","i","j","k","l","m",
       "n","o","p","q","r","s","t","u","v","w","x","y","z",
       "C","D","E","F","G","J","L","M","N","O","P","S","T","V",
       " ","-","{","}",":","=",",","_",
       "e^","E^" >>

\* The lower-case letter of each upper-case letter of the code page.
LowerOfUpper == << "c","d","e","f","g","j","l","m","n","o","p","s","t","v" >>

ByteBits == 6
ByteMod == 2 ^ ByteBits
AsciiLimit == ByteMod - 16
LetterCount == 26

Chr(name) == (CHOOSE i \in 1 .. Len(CodePage) : CodePage[i] = name) - 1

\* A text literal: Lit(<<"o","t","c">>) is the text "otc".
Lit(names) == [i \in 1 .. Len(names) |-> Chr(names[i])]

\* Optional values: Python's None and a present value.
None == << >>
Some(v) == << v >>
IsNone(o) == o = << >>
Val(o) == o[1]

\* Python truthiness of an optional text: None and "" are falsy.
Truthy(o) == ~IsNone(o) /\ Val(o) # << >>

\* str.lower()
LowerChar(c) ==
    IF c >= LetterCount /\ c < LetterCount + Len(LowerOfUpper)
    THEN Chr(LowerOfUpper[c - LetterCount + 1])
    ELSE IF c >= AsciiLimit /\ (c - AsciiLimit) % 2 = 1 THEN c - 1
    ELSE c

lower(s) == [i \in 1 .. Len(s) |-> LowerChar(s[i])]

\* Python's `needle in haystack` for strings.
Contains(haystack, needle) ==
    \E i \in 0 .. (Len(haystack) - Len(needle)) :
        \A j \in 1 .. Len(needle) : haystack[i + j] = needle[j]

\* "".join(seqs), by halves
RECURSIVE Concat(_)
Concat(seqs) ==
    IF seqs = << >> THEN << >>
    ELSE IF Len(seqs) = 1 THEN seqs[1]
    ELSE LET half == Len(seqs) \div 2 IN
         Concat(SubSeq(seqs, 1, half)) \o Concat(SubSeq(seqs, half + 1, Len(seqs)))

\* A call either returns a value or raises.
Returned(v) == [raised |-> FALSE, exc |-> "", val |-> v]
Raised(e) == [raised |-> TRUE, exc |-> e, val |-> None]

---------------------------------------------------------------------------
(* str.encode() and bytes.decode(): UTF-8 *)

EncodeChar(c) ==
    IF c < AsciiLimit THEN << c >>
    ELSE << AsciiLimit + ((c - AsciiLimit) \div 8),
            AsciiLimit + 8 + ((c - AsciiLimit) % 8) >>

Utf8Encode(s) == Concat([i \in 1 .. Len(s) |-> EncodeChar(s[i])])

IsLead(b) == b >= AsciiLimit /\ b < AsciiLimit + 8
IsCont(b) == b >= AsciiLimit + 8

\* The character that starts at byte i.
DecodeChar(bs, i) ==
    IF bs[i] < AsciiLimit THEN bs[i]
    ELSE AsciiLimit + 8 * (bs[i] - AsciiLimit) + (bs[i + 1] - AsciiLimit - 8)

\* Returned(text), or Raised("UnicodeDecodeError") on a stray continuation
\* byte or a lead byte without its continuation.
Utf8Decode(bs) ==
    IF \E i \in 1 .. Len(bs) :
           \/ IsLead(bs[i]) /\ ~(i < Len(bs) /\ IsCont(bs[i + 1]))
           \/ IsCont(bs[i]) /\ ~(i > 1 /\ IsLead(bs[i - 1]))
    THEN Raised("UnicodeDecodeError")
    ELSE LET starts == SelectSeq([i \in 1 .. Len(bs) |-> i],
                                 LAMBDA i : ~IsCont(bs[i]))
         IN  Returned(Some([k \in 1 .. Len(starts) |-> DecodeChar(bs, starts[k])]))

---------------------------------------------------------------------------
(* base64.b64encode and base64.b64decode *)

\* A symbol carries SymBits bits; two bytes make three symbols.  The
\* alphabet is the first SymMod lower-case letters, the pad character is "=".
SymBits == 4
SymMod == 2 ^ SymBits
PadChar == Chr("=")
SymChar(v) == v
IsSym(c) == c < SymMod
SymVal(c) == c

\* The k-th character of the encoding: group g takes bytes 2g+1 and 2g+2,
\* and a group that lacks its second byte ends in the pad.
b64encode(bs) ==
    [k \in 1 .. 3 * ((Len(bs) + 1) \div 2) |->
        LET g == (k - 1) \div 3
            first == bs[2 * g + 1]
            whole == 2 * g + 2 <= Len(bs)
        IN  IF (k - 1) % 3 = 0 THEN SymChar(first \div 4)
            ELSE IF (k - 1) % 3 = 1
                 THEN SymChar((first % 4) * 4
                              + (IF whole THEN bs[2 * g + 2] \div SymMod ELSE 0))
            ELSE IF whole THEN SymChar(bs[2 * g + 2] % SymMod) ELSE PadChar]

\* binascii.a2b_base64 without strict mode: characters outside the alphabet
\* are skipped, a pad met after two symbols of a group ends the input, any
\* other pad is skipped, and a group left open at the end is an error
\* ("Incorrect padding").
SymsBefore(s, i) == Cardinality({j \in 1 .. (i - 1) : IsSym(s[j])})

b64decode(s) ==
    LET ends == {p \in 1 .. Len(s) : s[p] = PadChar /\ SymsBefore(s, p) % 3 = 2}
        stop == IF ends = {} THEN Len(s) + 1
                ELSE CHOOSE p \in ends : \A q \in ends : p <= q
        syms == SelectSeq(SubSeq(s, 1, stop - 1), IsSym)
        groups == Len(syms) \div 3
    IN  IF ends = {} /\ Len(syms) % 3 # 0 THEN Raised("binascii.Error")
        ELSE Returned(Some(
                 [k \in 1 .. 2 * groups + (IF Len(syms) % 3 = 2 THEN 1 ELSE 0) |->
                     LET g == (k - 1) \div 2 IN
                     IF k % 2 = 1
                     THEN SymVal(syms[3 * g + 1]) * 4 + (SymVal(syms[3 * g + 2]) \div 4)
                     ELSE (SymVal(syms[3 * g + 2]) % 4) * SymMod + SymVal(syms[3 * g + 3])]))

---------------------------------------------------------------------------
(* padding.PKCS7(BLOCK_SIZE) *)

BlockLen == 4

PadLen(n) == BlockLen - (n % BlockLen)

Pkcs7Pad(bs) == bs \o [i \in 1 .. PadLen(Len(bs)) |-> PadLen(Len(bs))]

\* unpadder.update(...) + unpadder.finalize()
Pkcs7Unpad(bs) ==
    IF bs = << >> \/ Len(bs) % BlockLen # 0 THEN Raised("ValueError")
    ELSE LET n == bs[Len(bs)] IN
         IF n < 1 \/ n > BlockLen THEN Raised("ValueError")
         ELSE IF \E i \in (Len(bs) - n + 1) .. Len(bs) : bs[i] # n
              THEN Raised("ValueError")
         ELSE Returned(Some(SubSeq(bs, 1, Len(bs) - n)))

---------------------------------------------------------------------------
(* Cipher(algorithms.AES(AES_KEY), modes.CBC(iv)) *)

RECURSIVE XorBits(_, _, _)
XorBits(a, b, n) ==
    IF n = 0 THEN 0
    ELSE ((a + b) % 2) + 2 * XorBits(a \div 2, b \div 2, n - 1)

XorTable == [a \in 0 .. (ByteMod - 1) |-> [b \in 0 .. (ByteMod - 1) |-> XorBits(a, b, ByteBits)]]

Xor(a, b) == XorTable[a][b]

XorSeq(x, y) == [i \in 1 .. Len(x) |-> Xor(x[i], y[i])]

\* The block permutation that stands for AES: a Feistel network over the
\* two halves of a block.
Rounds == 1 .. 3

FeistelF(k, r, half) ==
    << (5 * half[1] + 3 * half[2] + k + r) % ByteMod,
       (half[1] + 7 * half[2] + 2 * k + 3 * r) % ByteMod >>

RECURSIVE FeistelEnc(_, _, _, _)
FeistelEnc(k, r, left, right) ==
    IF r \notin Rounds THEN left \o right
    ELSE FeistelEnc(k, r + 1, right, XorSeq(left, FeistelF(k, r, right)))

RECURSIVE FeistelDec(_, _, _, _)
FeistelDec(k, r, left, right) ==
    IF r \notin Rounds THEN left \o right
    ELSE FeistelDec(k, r - 1, XorSeq(right, FeistelF(k, r, left)), left)

EncBlock(k, blk) == FeistelEnc(k, 1, SubSeq(blk, 1, 2), SubSeq(blk, 3, 4))
DecBlock(k, blk) == FeistelDec(k, 3, SubSeq(blk, 1, 2), SubSeq(blk, 3, 4))

\* encryptor.update(padded_data) + encryptor.finalize(), CBC chaining
RECURSIVE CbcEncrypt(_, _, _)
CbcEncrypt(k, prev, bs) ==
    IF bs = << >> THEN << >>
    ELSE LET c == EncBlock(k, XorSeq(SubSeq(bs, 1, BlockLen), prev)) IN
         c \o CbcEncrypt(k, c, SubSeq(bs, BlockLen + 1, Len(bs)))

\* decryptor.update(ciphertext) + decryptor.finalize(), on whole blocks
RECURSIVE CbcDecrypt(_, _, _)
CbcDecrypt(k, prev, bs) ==
    IF bs = << >> THEN << >>
    ELSE LET c == SubSeq(bs, 1, BlockLen) IN
         XorSeq(DecBlock(k, c), prev)
             \o CbcDecrypt(k, c, SubSeq(bs, BlockLen + 1, Len(bs)))

---------------------------------------------------------------------------
(* utils/encryption_utils.py *)

\* The keys the process may run under (AES_KEY from the environment, or a
\* random one) and the values os.urandom may return for an IV.
Keys == {5, 40}
IVs == { <<0, 0, 0, 0>>, <<13, 7, 62, 1>>, <<63, 63, 63, 63>> }

\* encrypt_data under an IV that is the same for every call.
encrypt_data_FixedIv(data, iv) ==
    IF ~Truthy(data) THEN None
    ELSE Some(b64encode(<<0, 0, 0, 0>>
                        \o CbcEncrypt(AES_KEY, <<0, 0, 0, 0>>,
                                      Pkcs7Pad(Utf8Encode(Val(data))))))

\* encrypt_data that returns None for None only.
encrypt_data_EncryptsEmpty(data, iv) ==
    IF IsNone(data) THEN None
    ELSE Some(b64encode(iv \o CbcEncrypt(AES_KEY, iv, Pkcs7Pad(Utf8Encode(Val(data))))))

\* encrypt_data(data), with the IV that os.urandom returned
encrypt_data(data, iv) ==
    IF ~Truthy(data) THEN None
    ELSE Some(b64encode(iv \o CbcEncrypt(AES_KEY, iv, Pkcs7Pad(Utf8Encode(Val(data))))))

\* decrypt_data with the IV left at the head of the ciphertext.
decrypt_data_KeepsIv(token) ==
    IF ~Truthy(token) THEN Returned(None)
    ELSE LET raw == b64decode(Val(token)) IN
         IF raw.raised THEN raw
         ELSE LET bytes == Val(raw.val)
                  iv == SubSeq(bytes, 1, BlockLen)
              IN IF Len(bytes) < BlockLen \/ Len(bytes) % BlockLen # 0
                 THEN Raised("ValueError")
                 ELSE LET data == Pkcs7Unpad(CbcDecrypt(AES_KEY, iv, bytes)) IN
                      IF data.raised THEN data ELSE Utf8Decode(Val(data.val))

\* decrypt_data returning None where the unpadder raises.
decrypt_data_SwallowsUnpad(token) ==
    IF ~Truthy(token) THEN Returned(None)
    ELSE LET raw == b64decode(Val(token)) IN
         IF raw.raised THEN raw
         ELSE LET bytes == Val(raw.val)
                  iv == SubSeq(bytes, 1, BlockLen)
                  ciphertext == SubSeq(bytes, BlockLen + 1, Len(bytes))
              IN IF Len(bytes) < BlockLen \/ Len(ciphertext) % BlockLen # 0
                 THEN Raised("ValueError")
                 ELSE LET data == Pkcs7Unpad(CbcDecrypt(AES_KEY, iv, ciphertext)) IN
                      IF data.raised THEN Returned(None) ELSE Utf8Decode(Val(data.val))

\* decrypt_data(token): Returned(plaintext) or Raised(exception)
decrypt_data(token) ==
    IF ~Truthy(token) THEN Returned(None)
    ELSE LET raw == b64decode(Val(token)) IN
         IF raw.raised THEN raw
         ELSE LET bytes == Val(raw.val)
                  iv == SubSeq(bytes, 1, BlockLen)
                  ciphertext == SubSeq(bytes, BlockLen + 1, Len(bytes))
              IN IF Len(bytes) < BlockLen \/ Len(ciphertext) % BlockLen # 0
                 THEN Raised("ValueError")
                 ELSE LET data == Pkcs7Unpad(CbcDecrypt(AES_KEY, iv, ciphertext)) IN
                      IF data.raised THEN data ELSE Utf8Decode(Val(data.val))


---------------------------------------------------------------------------
(* json.loads and json.dumps *)

\* JSON at the width of the model: a mapping is written {key: value, ...},
\* keys and values are words (runs of letters, "_" and "-"), blanks may
\* stand between tokens, and a text that is a single word is a JSON value
\* that is not a mapping.  A Python dict is the sequence of its <<key,
\* value>> items in insertion order.
Dict(items) == [kind |-> "dict", items |-> items, text |-> << >>]
Scalar(text) == [kind |-> "scalar", items |-> << >>, text |-> text]

DictHas(d, k) == \E i \in 1 .. Len(d.items) : d.items[i][1] = k

\* d.get(k): the value, or None
DictGet(d, k) ==
    IF DictHas(d, k)
    THEN Some(d.items[CHOOSE i \in 1 .. Len(d.items) : d.items[i][1] = k][2])
    ELSE None

\* d[k] = v: a key already present keeps its place
ItemsPut(items, k, v) ==
    IF \E i \in 1 .. Len(items) : items[i][1] = k
    THEN [i \in 1 .. Len(items) |-> IF items[i][1] = k THEN <<k, v>> ELSE items[i]]
    ELSE Append(items, <<k, v>>)

JsonNull == Lit(<<"n","u","l","l">>)

\* bool(v) that takes every mapping, the empty one too, as true.
PyTruthy_EveryMapping(v) == IF v.kind = "dict" THEN TRUE ELSE v.text # JsonNull

\* bool(v) of a value json.loads returned
PyTruthy(v) == IF v.kind = "dict" THEN v.items # << >> ELSE v.text # JsonNull

\* bool(d.get(k))
GetTruthy(d, k) == DictHas(d, k) /\ Val(DictGet(d, k)) # JsonNull

IsWordChar(c) ==
    c < LetterCount + Len(LowerOfUpper) \/ c = Chr("_") \/ c = Chr("-")

RECURSIVE SkipBlanks(_, _)
SkipBlanks(s, i) ==
    IF i <= Len(s) /\ s[i] = Chr(" ") THEN SkipBlanks(s, i + 1) ELSE i

RECURSIVE WordEnd(_, _)
WordEnd(s, i) ==
    IF i <= Len(s) /\ IsWordChar(s[i]) THEN WordEnd(s, i + 1) ELSE i

At(s, i, name) == i <= Len(s) /\ s[i] = Chr(name)

\* The items of a mapping from position i, which follows "{" or ",".
RECURSIVE ParseItems(_, _, _)
ParseItems(s, i, items) ==
    LET keyEnd == WordEnd(s, i)
        colon == SkipBlanks(s, keyEnd)
        valStart == SkipBlanks(s, colon + 1)
        valEnd == WordEnd(s, valStart)
        after == SkipBlanks(s, valEnd)
        put == ItemsPut(items, SubSeq(s, i, keyEnd - 1), SubSeq(s, valStart, valEnd - 1))
    IN  IF keyEnd = i \/ ~At(s, colon, ":") \/ valEnd = valStart
        THEN Raised("JSONDecodeError")
        ELSE IF At(s, after, ",") THEN ParseItems(s, SkipBlanks(s, after + 1), put)
        ELSE IF At(s, after, "}") /\ SkipBlanks(s, after + 1) > Len(s)
             THEN Returned(Some(Dict(put)))
        ELSE Raised("JSONDecodeError")

json_loads(s) ==
    LET start == SkipBlanks(s, 1)
        inner == SkipBlanks(s, start + 1)
        wordEnd == WordEnd(s, start)
    IN  IF At(s, start, "{")
        THEN IF At(s, inner, "}")
             THEN IF SkipBlanks(s, inner + 1) > Len(s)
                  THEN Returned(Some(Dict(<< >>)))
                  ELSE Raised("JSONDecodeError")
             ELSE ParseItems(s, inner, << >>)
        ELSE IF wordEnd > start /\ SkipBlanks(s, wordEnd) > Len(s)
             THEN Returned(Some(Scalar(SubSeq(s, start, wordEnd - 1))))
        ELSE Raised("JSONDecodeError")

RECURSIVE DumpItems(_)
DumpItems(items) ==
    IF items = << >> THEN << >>
    ELSE items[1][1] \o Lit(<<":"," ">>) \o items[1][2]
         \o (IF Len(items) > 1 THEN Lit(<<","," ">>) ELSE << >>)
         \o DumpItems(Tail(items))

\* json.dumps that writes the first item of a mapping only.
json_dumps_FirstItem(v) ==
    IF v.kind = "dict"
    THEN Lit(<<"{">>) \o DumpItems(SubSeq(v.items, 1, 1)) \o Lit(<<"}">>)
    ELSE v.text

json_dumps(v) ==
    IF v.kind = "dict" THEN Lit(<<"{">>) \o DumpItems(v.items) \o Lit(<<"}">>)
    ELSE v.text

---------------------------------------------------------------------------
(* utils/ocr_utils.py *)

\* Module import raises unless GEMINI_API_KEY is set, so it is set wherever
\* the functions below run.
GEMINI_API_KEY == TRUE

\* What a function received or returned as document content: the PDF's
\* bytes, or text.
PdfBytes == [kind |-> "bytes", text |-> << >>]
Text(s) == [kind |-> "text", text |-> s]

\* extract_text_from_pdf_tesseract(pdf_path): the text pdf2image and
\* pytesseract produce, or the exception one of them raises.  env.ocr is
\* what they do for this document.
extract_text_from_pdf_tesseract(env) == env.ocr

\* extract_text_from_pdf_google_vision(pdf_path): the text, or None after
\* any exception.  env.vision is what the API does for this document.
extract_text_from_pdf_google_vision(env) ==
    IF env.vision.raised THEN None ELSE env.vision.val

MsgFileRead ==
    Lit(<<"E","r","r","o","r"," ","r","e","a","d","i","n","g"," ","P","D","F",
          " ","f","i","l","e">>)

Extracted(content, status, used) ==
    [raised |-> FALSE, content |-> content, status |-> status, used |-> used]

ExtractRaised(used) ==
    [raised |-> TRUE, content |-> Text(<< >>), status |-> "", used |-> used]

\* The Tesseract branch of extract_content_from_pdf, tagged `status`.
TesseractBranch(env, status, used) ==
    LET ocr == extract_text_from_pdf_tesseract(env) IN
    IF ocr.raised THEN ExtractRaised(used \cup {"tesseract"})
    ELSE Extracted(Text(Val(ocr.val)), status, used \cup {"tesseract"})

\* extract_content_from_pdf that reads the file only where a strategy
\* needs its bytes.
extract_content_ReadsLate(env, use_gemini_pdf, use_google_vision) ==
    IF use_gemini_pdf /\ GEMINI_API_KEY /\ env.configure_ok
    THEN IF env.readable THEN Extracted(PdfBytes, "success", {})
         ELSE Extracted(Text(MsgFileRead), "error_file_read", {})
    ELSE IF use_google_vision
         THEN LET google_vision_text == extract_text_from_pdf_google_vision(env) IN
              IF ~IsNone(google_vision_text)
              THEN Extracted(Text(Val(google_vision_text)), "success_google_vision",
                             {"vision"})
              ELSE TesseractBranch(env, "success_tesseract_fallback", {"vision"})
    ELSE TesseractBranch(env, "success", {})

\* extract_content_from_pdf that tries the Vision API, when asked for it,
\* before the LLM's own reading of the PDF.
extract_content_VisionFirst(env, use_gemini_pdf, use_google_vision) ==
    IF ~env.readable THEN Extracted(Text(MsgFileRead), "error_file_read", {})
    ELSE IF use_google_vision
         THEN LET google_vision_text == extract_text_from_pdf_google_vision(env) IN
              IF ~IsNone(google_vision_text)
              THEN Extracted(Text(Val(google_vision_text)), "success_google_vision",
                             {"vision"})
              ELSE TesseractBranch(env, "success_tesseract_fallback", {"vision"})
    ELSE IF use_gemini_pdf /\ GEMINI_API_KEY /\ env.configure_ok
         THEN Extracted(PdfBytes, "success", {})
    ELSE TesseractBranch(env, "success", {})

\* extract_content_from_pdf(pdf_path, use_gemini_pdf, use_google_vision).
\* env.readable: open/read of the file succeeds; env.configure_ok:
\* genai.configure returns.  `used` names the collaborators that were called.
extract_content_from_pdf(env, use_gemini_pdf, use_google_vision) ==
    IF ~env.readable THEN Extracted(Text(MsgFileRead), "error_file_read", {})
    ELSE IF use_gemini_pdf /\ GEMINI_API_KEY /\ env.configure_ok
         THEN Extracted(PdfBytes, "success", {})
    ELSE IF use_google_vision
         THEN LET google_vision_text == extract_text_from_pdf_google_vision(env) IN
              IF ~IsNone(google_vision_text)
              THEN Extracted(Text(Val(google_vision_text)), "success_google_vision",
                             {"vision"})
              ELSE TesseractBranch(env, "success_tesseract_fallback", {"vision"})
    ELSE TesseractBranch(env, "success", {})

KwProvider ==
    Lit(<<"p","r","o","v","i","d","e","r"," ","f","a","x"," ","f","o","r","m">>)
KwOverTheCounter ==
    Lit(<<"o","v","e","r","-","t","h","e","-","c","o","u","n","t","e","r">>)
KwOtc == Lit(<<"o","t","c">>)

\* The template override without the test for the "default" template.
ResolveTemplate_IgnoresDeclared(template, template_hint_text) ==
    IF Truthy(template_hint_text)
    THEN LET hint == lower(Val(template_hint_text)) IN
         IF Contains(hint, KwProvider) THEN "provider_fax_form"
         ELSE IF Contains(hint, KwOverTheCounter) \/ Contains(hint, KwOtc)
              THEN "otc_fax_form"
         ELSE template
    ELSE template

\* The template override with the OTC keywords tried first.
ResolveTemplate_OtcFirst(template, template_hint_text) ==
    IF template = "default" /\ Truthy(template_hint_text)
    THEN LET hint == lower(Val(template_hint_text)) IN
         IF Contains(hint, KwOverTheCounter) \/ Contains(hint, KwOtc)
         THEN "otc_fax_form"
         ELSE IF Contains(hint, KwProvider) THEN "provider_fax_form"
         ELSE template
    ELSE template

\* The template override of extract_fields_from_text_or_pdf.
ResolveTemplate(template, template_hint_text) ==
    IF template = "default" /\ Truthy(template_hint_text)
    THEN LET hint == lower(Val(template_hint_text)) IN
         IF Contains(hint, KwProvider) THEN "provider_fax_form"
         ELSE IF Contains(hint, KwOverTheCounter) \/ Contains(hint, KwOtc)
              THEN "otc_fax_form"
         ELSE template
    ELSE template

\* The schema the prompt describes for a template.
PromptSchema(template) ==
    IF template = "provider_fax_form" THEN "Provider Fax Form"
    ELSE IF template = "otc_fax_form" THEN "OTC Fax Form"
    ELSE "Unknown/Default"

ErrorKey == Lit(<<"e","r","r","o","r">>)
RawResponseKey == Lit(<<"r","a","w","_","r","e","s","p","o","n","s","e">>)

MsgNoKey ==
    Lit(<<"k","e","y"," ","i","s"," ","n","o","t"," ","c","o","n","f","i","g",
          "u","r","e","d">>)
MsgSetupFailed ==
    Lit(<<"G","e","m","i","n","i"," ","c","l","i","e","n","t"," ","s","e","t",
          "u","p"," ","f","a","i","l","e","d">>)
MsgInvalidJson ==
    Lit(<<"L","L","M"," ","o","u","t","p","u","t"," ","i","n","v","a","l","i",
          "d"," ","J","S","O","N">>)
MsgExtractionError ==
    Lit(<<"L","L","M"," ","e","x","t","r","a","c","t","i","o","n"," ","e","r",
          "r","o","r">>)

\* What the reasoning service does with a request: generate_content raises
\* ("transport"), response.text raises ("no_text"), or it replies with text.
ServiceRaises(kind) == [kind |-> kind, text |-> << >>]
ServiceReplies(text) == [kind |-> "reply", text |-> text]

\* The request submitted to the service: the resolved template, the schema
\* of its prompt, and the content, attached as a document or embedded in
\* the prompt.
Request(template, content, is_pdf_bytes) ==
    [template |-> template, schema |-> PromptSchema(template),
     attached |-> is_pdf_bytes, content |-> content]

FieldsResult(ret, request) == [ret |-> ret, request |-> request]

\* extract_fields_from_text_or_pdf with the JSON parse failure caught by
\* the general handler.
extract_fields_ParseErrorAsGeneric(content, template, is_pdf_bytes, template_hint_text, env) ==
    IF ~env.configure_ok
    THEN FieldsResult(Returned(Some(Dict(<< <<ErrorKey, MsgSetupFailed>> >>))), None)
    ELSE LET request == Some(Request(ResolveTemplate(template, template_hint_text),
                                     content, is_pdf_bytes))
             extracted_data == json_loads(env.service.text)
         IN  IF env.service.kind # "reply" \/ extracted_data.raised
             THEN FieldsResult(
                      Returned(Some(Dict(<< <<ErrorKey, MsgExtractionError>> >>))),
                      request)
             ELSE FieldsResult(extracted_data, request)

\* extract_fields_from_text_or_pdf with the key "form" given a default
\* when the reply lacks it.
extract_fields_FillsMissing(content, template, is_pdf_bytes, template_hint_text, env) ==
    IF ~env.configure_ok
    THEN FieldsResult(Returned(Some(Dict(<< <<ErrorKey, MsgSetupFailed>> >>))), None)
    ELSE LET request == Some(Request(ResolveTemplate(template, template_hint_text),
                                     content, is_pdf_bytes))
             extracted_data == json_loads(env.service.text)
         IN  IF env.service.kind # "reply"
             THEN FieldsResult(
                      Returned(Some(Dict(<< <<ErrorKey, MsgExtractionError>> >>))),
                      request)
             ELSE IF extracted_data.raised
             THEN FieldsResult(
                      Returned(Some(Dict(<< <<ErrorKey, MsgInvalidJson>>,
                                            <<RawResponseKey, env.service.text>> >>))),
                      request)
             ELSE IF Val(extracted_data.val).kind = "dict"
                     /\ ~DictHas(Val(extracted_data.val), Lit(<<"f","o","r","m">>))
             THEN FieldsResult(
                      Returned(Some(Dict(ItemsPut(Val(extracted_data.val).items,
                                                  Lit(<<"f","o","r","m">>), JsonNull)))),
                      request)
             ELSE FieldsResult(extracted_data, request)

\* extract_fields_from_text_or_pdf(content, template, is_pdf_bytes,
\* template_hint_text).  env.configure_ok: genai.configure and
\* GenerativeModel return; env.service: what the service does.
extract_fields_from_text_or_pdf(content, template, is_pdf_bytes, template_hint_text, env) ==
    IF ~GEMINI_API_KEY
    THEN FieldsResult(Returned(Some(Dict(<< <<ErrorKey, MsgNoKey>> >>))), None)
    ELSE IF ~env.configure_ok
    THEN FieldsResult(Returned(Some(Dict(<< <<ErrorKey, MsgSetupFailed>> >>))), None)
    ELSE LET request == Some(Request(ResolveTemplate(template, template_hint_text),
                                     content, is_pdf_bytes))
             json_response_str == env.service.text
             extracted_data == json_loads(json_response_str)
         IN  IF env.service.kind # "reply"
             THEN FieldsResult(
                      Returned(Some(Dict(<< <<ErrorKey, MsgExtractionError>> >>))),
                      request)
             ELSE IF extracted_data.raised
             THEN FieldsResult(
                      Returned(Some(Dict(<< <<ErrorKey, MsgInvalidJson>>,
                                            <<RawResponseKey, json_response_str>> >>))),
                      request)
             ELSE FieldsResult(extracted_data, request)

---------------------------------------------------------------------------
(* The state of a receive_fax request *)

NoResponse == [kind |-> "none", form_id |-> None]

\* pc: where the handler stands.  file: the saved upload exists on disk.
\* log: the audit entries the request wrote.  failed: the stage that failed
\* ("" while none has).  rows_before: rows in fax_forms when it started.
IdleRun ==
    [pc |-> "idle", file |-> FALSE, content |-> Text(<< >>), status |-> "",
     is_pdf_bytes |-> FALSE, template_hint_text |-> None,
     extracted_fields |-> Dict(<< >>), new_form_id |-> None, log |-> << >>,
     response |-> NoResponse, failed |-> "", rows_before |-> 0,
     calls |-> << >>]

---------------------------------------------------------------------------
(* Direct calls of the cipher *)

\* The record of a direct call: the function, its arguments and its result.
NoCall ==
    [op |-> "none", data |-> None, iv |-> << >>, token |-> None,
     ret |-> Returned(None), second |-> None]

\* Plaintexts handed to the cipher: every text of at most MaxLen characters
\* over a lower-case letter, its upper-case letter, the pad character and a
\* two-byte character, and the absent value.
MaxLen == 4
CipherChars == {Chr("c"), Chr("C"), Chr("="), Chr("E^")}
CipherTexts == UNION {[1 .. n -> CipherChars] : n \in 0 .. MaxLen}
CipherInputs == {None} \cup {Some(s) : s \in CipherTexts}

\* The requests that use the store at the same time; each db.py call opens
\* a connection of its own (get_db_connection).
Callers == {1, 2, 3}

NoConn ==
    [pc |-> "idle", op |-> "", row |-> None, lastrowid |-> None,
     inserted_id |-> None, form_id |-> None, uncommitted |-> {},
     ret |-> Returned(None)]

Init ==
    /\ AES_KEY \in Keys
    /\ rows = << >>
    /\ now = 0
    /\ run = IdleRun
    /\ audit = << >>
    /\ call = NoCall
    /\ conns = [p \in Callers |-> NoConn]

\* encrypt_data(data) called; os.urandom(16) returned iv.
EncryptCall ==
    \E data \in CipherInputs, iv \in IVs :
        /\ call.op = "none"
        /\ call' = [op |-> "encrypt_data", data |-> data, iv |-> iv,
                    token |-> encrypt_data(data, iv), ret |-> Returned(None),
                    second |-> None]
        /\ UNCHANGED <<AES_KEY, rows, now, run, audit, conns>>

\* decrypt_data(token) called on the token the last encrypt_data returned.
DecryptCall ==
    /\ call.op = "encrypt_data"
    /\ call' = [call EXCEPT !.op = "decrypt_data", !.ret = decrypt_data(call.token)]
    /\ UNCHANGED <<AES_KEY, rows, now, run, audit, conns>>

\* The token encrypt_data would have returned under key k.
TokenUnder(k, data, iv) ==
    b64encode(iv \o CbcEncrypt(k, iv, Pkcs7Pad(Utf8Encode(data))))

\* Tokens that are not what encrypt_data returned under the process's key:
\* one made under another key, and the returned one with its last symbol
\* lost, its last group of symbols lost, or a symbol of its last group
\* changed.
ForeignTokens(data, iv, token) ==
    {TokenUnder(k, data, iv) : k \in Keys \ {AES_KEY}}
        \cup { SubSeq(token, 1, Len(token) - 1),
               SubSeq(token, 1, Len(token) - 3),
               [token EXCEPT ![Len(token) - 2] = SymChar((SymVal(@) + 5) % SymMod)] }

\* decrypt_data(token) called on such a token.
DecryptForeignCall ==
    /\ call.op = "encrypt_data"
    /\ Truthy(call.token)
    /\ \E token \in ForeignTokens(Val(call.data), call.iv, Val(call.token)) :
           call' = [call EXCEPT !.op = "decrypt_data(foreign)",
                                !.token = Some(token),
                                !.ret = decrypt_data(Some(token))]
    /\ UNCHANGED <<AES_KEY, rows, now, run, audit, conns>>

\* encrypt_data(data) called a second time on the same data; os.urandom(16)
\* returned iv, which may be what it returned the first time.
EncryptAgainCall ==
    /\ call.op = "encrypt_data"
    /\ \E iv \in IVs :
           call' = [call EXCEPT !.op = "encrypt_data(twice)",
                                !.second = Some([iv |-> iv,
                                                 token |-> encrypt_data(call.data, iv)])]
    /\ UNCHANGED <<AES_KEY, rows, now, run, audit, conns>>

NextCipher == EncryptCall \/ DecryptCall \/ DecryptForeignCall \/ EncryptAgainCall

SpecCipher == Init /\ [][NextCipher]_vars

---------------------------------------------------------------------------
(* Claims about the cipher *)

\* C1: for every non-empty string s, decrypt_data(encrypt_data(s)) returns
\* exactly s, under the process's key and whatever IV encrypt_data drew.
C1_RoundTrip ==
    (call.op = "decrypt_data" /\ Truthy(call.data))
        => call.ret = Returned(call.data)

\* A round trip of a text longer than one block that holds a two-byte
\* character, under a non-zero IV.
C1_Witness ==
    /\ call.op = "decrypt_data"
    /\ Truthy(call.data)
    /\ Len(Val(call.data)) = BlockLen
    /\ Chr("E^") \in {Val(call.data)[i] : i \in 1 .. BlockLen}
    /\ call.iv = <<13, 7, 62, 1>>
    /\ call.ret = Returned(call.data)

\* binascii.Error and UnicodeDecodeError are subclasses of ValueError: the
\* one class every exception of decrypt_data belongs to.
ValueErrors == {"ValueError", "binascii.Error", "UnicodeDecodeError"}

ForeignCall == call.op = "decrypt_data(foreign)"

\* The three cases, told from the token alone.
CannotDecode(token) == b64decode(token).raised
DecodedBytes(token) == Val(b64decode(token).val)
BadLength(token) ==
    /\ ~CannotDecode(token)
    /\ Len(DecodedBytes(token)) % BlockLen # 0
UnpadFails(token) ==
    /\ ~CannotDecode(token)
    /\ ~BadLength(token)
    /\ LET bytes == DecodedBytes(token) IN
           \/ Len(bytes) < 2 * BlockLen
           \/ LET padded == CbcDecrypt(AES_KEY, SubSeq(bytes, 1, BlockLen),
                                       SubSeq(bytes, BlockLen + 1, Len(bytes)))
                  n == padded[Len(padded)]
              IN  \/ n \notin 1 .. BlockLen
                  \/ \E i \in 1 .. BlockLen :
                         i <= n /\ padded[Len(padded) - i + 1] # n

\* C13: when the token cannot be base64-decoded, when the decoded length is
\* not a multiple of the block size, and when unpadding fails, decrypt_data
\* raises an exception of the one class ValueError and returns no value.
C13_DecryptionError ==
    (ForeignCall /\ (\/ CannotDecode(Val(call.token))
                     \/ BadLength(Val(call.token))
                     \/ UnpadFails(Val(call.token))))
        => /\ call.ret.raised
           /\ call.ret.exc \in ValueErrors
           /\ IsNone(call.ret.val)

\* A token made under another key, whose unpadding fails.
C13_Witness ==
    /\ ForeignCall
    /\ Val(call.token) = TokenUnder(CHOOSE k \in Keys : k # AES_KEY,
                                    Val(call.data), call.iv)
    /\ UnpadFails(Val(call.token))
    /\ call.ret = Raised("ValueError")

EncryptedTwice == call.op = "encrypt_data(twice)" /\ Truthy(call.data)

\* The IV a token carries: the first block of its bytes.
IvOf(token) == SubSeq(Val(b64decode(Val(token)).val), 1, BlockLen)

---------------------------------------------------------------------------
(* Direct calls of the extractors *)

\* What the collaborators may do for a document.
OcrText == Lit(<<"f","a","x"," ","O","T","C">>)
VisionOutcomes == {Raised("Exception"), Returned(Some(<< >>)), Returned(Some(OcrText))}
OcrOutcomes == {Raised("Exception"), Returned(Some(OcrText))}
ContentEnvs ==
    [readable : BOOLEAN, configure_ok : BOOLEAN, vision : VisionOutcomes,
     ocr : OcrOutcomes]

HintTexts ==
    { << >>,
      Lit(<<"f","a","x"," ","f","o","r","m">>),
      Lit(<<"P","r","o","v","i","d","e","r"," ","F","a","x"," ","F","o","r","m">>),
      Lit(<<"p","r","o","v","i","d","e","r"," ","f","a","x"," ","f","o","r","m",
            " ","O","T","C">>),
      Lit(<<"O","v","e","r","-","T","h","e","-","C","o","u","n","t","e","r"," ",
            "P","r","o","v","i","d","e","r"," ","f","a","x"," ","f","o","r","m">>),
      Lit(<<"O","T","C">>),
      Lit(<<"n","o","t","c","h">>),
      Lit(<<"O","v","e","r","-","T","h","e","-","C","o","u","n","t","e","r">>),
      Lit(<<"o","v","e","r"," ","t","h","e"," ","c","o","u","n","t","e","r">>) }
Hints == {None} \cup {Some(h) : h \in HintTexts}

Templates == {"default", "provider_fax_form", "otc_fax_form", "unknown_form"}

\* Replies of the service: mappings, with blanks, with a repeated key, with
\* an "error" or a "raw_response" key of the service's own, the empty
\* mapping, a value that is no mapping, and texts that are not JSON.
ReplyFields == Lit(<<"{","f","o","r","m",":","o","t","c",",","i","d",":","m","}">>)
ReplyBlanks == Lit(<<" ","{"," ","i","d"," ",":"," ","M"," ","}"," ">>)
ReplyRepeated == Lit(<<"{","i","d",":","m",",","i","d",":","n","}">>)
ReplyEmptyMapping == Lit(<<"{","}">>)
ReplyOwnError == Lit(<<"{","e","r","r","o","r",":","n","o","p","e","}">>)
ReplyNullError == Lit(<<"{","e","r","r","o","r",":","n","u","l","l",",","i","d",":","m","}">>)
ReplyOwnRaw ==
    Lit(<<"{","r","a","w","_","r","e","s","p","o","n","s","e",":","x",",","i","d",":","m","}">>)
ReplyScalar == Lit(<<"n","o","n","e">>)
ReplyTruncated == Lit(<<"{","i","d",":","m">>)
ReplyNoValue == Lit(<<"{","i","d",":","}">>)
ReplyProse == Lit(<<"i","d"," ","i","s"," ","m">>)

WellFormedReplies ==
    {ReplyFields, ReplyBlanks, ReplyRepeated, ReplyEmptyMapping, ReplyOwnError,
     ReplyNullError, ReplyOwnRaw, ReplyScalar}
MalformedReplies == {<< >>, ReplyTruncated, ReplyNoValue, ReplyProse}

ServiceOutcomes ==
    {ServiceRaises("transport"), ServiceRaises("no_text")}
        \cup {ServiceReplies(r) : r \in WellFormedReplies \cup MalformedReplies}
FieldsEnvs == [configure_ok : BOOLEAN, service : ServiceOutcomes]

\* extract_content_from_pdf called with any flags on any document.
ExtractContentCall ==
    \E env \in ContentEnvs, use_gemini_pdf \in BOOLEAN, use_google_vision \in BOOLEAN :
        /\ call.op = "none"
        /\ call' = [op |-> "extract_content_from_pdf", env |-> env,
                    use_gemini_pdf |-> use_gemini_pdf,
                    use_google_vision |-> use_google_vision,
                    ret |-> extract_content_from_pdf(env, use_gemini_pdf, use_google_vision)]
        /\ UNCHANGED <<AES_KEY, rows, now, run, audit, conns>>

\* extract_fields_from_text_or_pdf called with any template and hint.
ExtractFieldsCall ==
    \E content \in {PdfBytes, Text(OcrText)}, template \in Templates,
       hint \in Hints, env \in FieldsEnvs :
        /\ call.op = "none"
        /\ LET res == extract_fields_from_text_or_pdf(
                          content, template, content.kind = "bytes", hint, env)
           IN call' = [op |-> "extract_fields_from_text_or_pdf", content |-> content,
                       template |-> template, template_hint_text |-> hint,
                       env |-> env, ret |-> res.ret, request |-> res.request]
        /\ UNCHANGED <<AES_KEY, rows, now, run, audit, conns>>

NextExtract == ExtractContentCall \/ ExtractFieldsCall

SpecExtract == Init /\ [][NextExtract]_vars

---------------------------------------------------------------------------
(* Claims about the extractors *)

VisionFailed ==
    /\ call.op = "extract_content_from_pdf"
    /\ call.use_google_vision
    /\ "vision" \in call.ret.used
    /\ call.env.vision.raised

\* C7: when the vision API is requested and fails, extract_content_from_pdf
\* returns OCR text tagged success_tesseract_fallback and does not raise,
\* also when the OCR fallback itself fails.
C7_FallbackNeverRaises ==
    VisionFailed =>
        /\ ~call.ret.raised
        /\ call.ret.status = "success_tesseract_fallback"
        /\ call.ret.content.kind = "text"

FieldsCalled == call.op = "extract_fields_from_text_or_pdf"
RequestSent == FieldsCalled /\ ~IsNone(call.request)
HintHas(kw) ==
    /\ ~IsNone(call.template_hint_text)
    /\ Contains(lower(Val(call.template_hint_text)), kw)

C9_HintOrder ==
    (RequestSent /\ call.template = "default")
        => LET resolved == Val(call.request).template IN
           /\ HintHas(KwProvider) => resolved = "provider_fax_form"
           /\ (~HintHas(KwProvider) /\ (HintHas(KwOverTheCounter) \/ HintHas(KwOtc)))
                  => resolved = "otc_fax_form"
           /\ (~HintHas(KwProvider) /\ ~HintHas(KwOverTheCounter) /\ ~HintHas(KwOtc))
                  => resolved = "default"
           /\ ~Truthy(call.template_hint_text) => resolved = "default"

\* A mixed-case hint with the provider keyword after an OTC keyword.
C9_Witness ==
    /\ RequestSent
    /\ call.template = "default"
    /\ HintHas(KwProvider)
    /\ HintHas(KwOverTheCounter)
    /\ Val(call.template_hint_text) # lower(Val(call.template_hint_text))
    /\ Val(call.request).template = "provider_fax_form"

\* The ways a call of the field extractor fails.
ParseFailure ==
    /\ FieldsCalled
    /\ call.env.configure_ok
    /\ call.env.service.kind = "reply"
    /\ call.env.service.text \in MalformedReplies
ServiceFailure ==
    /\ FieldsCalled
    /\ (~call.env.configure_ok \/ call.env.service.kind # "reply")

\* C10: extract_fields_from_text_or_pdf never raises; a reply that is not
\* well-formed JSON gives the invalid-JSON error with the raw reply kept, a
\* failure of setup or transport gives another error, and of the failed
\* calls exactly the parse failures carry raw_response.
C10_ErrorsAreResults ==
    FieldsCalled =>
        /\ ~call.ret.raised
        /\ ParseFailure =>
               /\ Val(call.ret.val).kind = "dict"
               /\ DictGet(Val(call.ret.val), ErrorKey) = Some(MsgInvalidJson)
               /\ DictGet(Val(call.ret.val), RawResponseKey) = Some(call.env.service.text)
        /\ ServiceFailure =>
               /\ Val(call.ret.val).kind = "dict"
               /\ DictHas(Val(call.ret.val), ErrorKey)
               /\ DictGet(Val(call.ret.val), ErrorKey) # Some(MsgInvalidJson)
               /\ ~DictHas(Val(call.ret.val), RawResponseKey)

\* A truncated reply, returned as the invalid-JSON error with the reply.
C10_Witness ==
    /\ ParseFailure
    /\ call.env.service.text = ReplyTruncated
    /\ ~call.ret.raised
    /\ DictGet(Val(call.ret.val), RawResponseKey) = Some(ReplyTruncated)

\* The mappings the service replies with, written out: what a reader of
\* the reply takes it to say.
KeyForm == Lit(<<"f","o","r","m">>)
KeyId == Lit(<<"i","d">>)
MappingReplies == {ReplyFields, ReplyBlanks, ReplyRepeated, ReplyEmptyMapping}
MappingOf(reply) ==
    IF reply = ReplyFields
    THEN << <<KeyForm, Lit(<<"o","t","c">>)>>, <<KeyId, Lit(<<"m">>)>> >>
    ELSE IF reply = ReplyBlanks THEN << <<KeyId, Lit(<<"M">>)>> >>
    ELSE IF reply = ReplyRepeated THEN << <<KeyId, Lit(<<"n">>)>> >>
    ELSE << >>

PartialReply ==
    /\ FieldsCalled
    /\ call.env.configure_ok
    /\ call.env.service.kind = "reply"
    /\ call.env.service.text \in MappingReplies

\* C11: when the service replies with a well-formed mapping, also one that
\* lacks fields of the schema, extract_fields_from_text_or_pdf returns that
\* mapping: the keys of the reply and no other, each with the reply's value,
\* and no "error" or "raw_response" key.
C11_MappingPassedThrough ==
    PartialReply =>
        /\ ~call.ret.raised
        /\ Val(call.ret.val) = Dict(MappingOf(call.env.service.text))
        /\ ~DictHas(Val(call.ret.val), ErrorKey)
        /\ ~DictHas(Val(call.ret.val), RawResponseKey)

\* The reply {id: M}, which lacks "form", returned with the one key "id".
C11_Witness ==
    /\ PartialReply
    /\ call.env.service.text = ReplyBlanks
    /\ Val(call.ret.val).kind = "dict"
    /\ DictHas(Val(call.ret.val), KeyId)
    /\ ~DictHas(Val(call.ret.val), KeyForm)
    /\ Len(Val(call.ret.val).items) = 1

---------------------------------------------------------------------------
(* utils/db.py: table fax_forms *)

\* The row with ocr_text written as it was given.
InsertedRow_OcrTextAsGiven(id, created_at, filename, ocr_text, fields, external_fax_id, fax_from_number, fax_to_number, ivs) ==
    [id |-> id, filename |-> filename,
     ocr_text |-> ocr_text,
     extracted_fields |-> encrypt_data(Some(json_dumps(fields)), ivs[2]),
     created_at |-> created_at, external_fax_id |-> external_fax_id,
     fax_from_number |-> fax_from_number, fax_to_number |-> fax_to_number]

\* The row insert_form_data writes: ocr_text and the JSON text of fields
\* are encrypted, each under its own IV (ivs[1], ivs[2]).
InsertedRow(id, created_at, filename, ocr_text, fields, external_fax_id, fax_from_number, fax_to_number, ivs) ==
    [id |-> id, filename |-> filename,
     ocr_text |-> encrypt_data(ocr_text, ivs[1]),
     extracted_fields |-> encrypt_data(Some(json_dumps(fields)), ivs[2]),
     created_at |-> created_at, external_fax_id |-> external_fax_id,
     fax_from_number |-> fax_from_number, fax_to_number |-> fax_to_number]

\* insert_form_data returning the next id also when the call fails.
insert_form_data_IdOnFailure(filename, ocr_text, fields, external_fax_id, fax_from_number, fax_to_number, ivs, created_at, db_ok) ==
    [rows |-> IF db_ok
              THEN Append(rows, InsertedRow(Len(rows) + 1, created_at, filename,
                                            ocr_text, fields, external_fax_id,
                                            fax_from_number, fax_to_number, ivs))
              ELSE rows,
     id |-> Some(Len(rows) + 1)]

\* insert_form_data with the row left in the table when the call fails.
insert_form_data_KeepsRowOnFailure(filename, ocr_text, fields, external_fax_id, fax_from_number, fax_to_number, ivs, created_at, db_ok) ==
    [rows |-> Append(rows, InsertedRow(Len(rows) + 1, created_at, filename,
                                       ocr_text, fields, external_fax_id,
                                       fax_from_number, fax_to_number, ivs)),
     id |-> IF db_ok THEN Some(Len(rows) + 1) ELSE None]

\* insert_form_data writing with INSERT OR REPLACE on the filename: the new
\* row takes the place of the rows of that filename.
insert_form_data_ReplacesFilename(filename, ocr_text, fields, external_fax_id, fax_from_number, fax_to_number, ivs, created_at, db_ok) ==
    IF db_ok
    THEN [rows |-> Append(SelectSeq(rows, LAMBDA row : row.filename # filename),
                          InsertedRow(Len(rows) + 1, created_at, filename,
                                      ocr_text, fields, external_fax_id,
                                      fax_from_number, fax_to_number, ivs)),
          id |-> Some(Len(rows) + 1)]
    ELSE [rows |-> rows, id |-> None]

\* insert_form_data(...): the table after the call and the id returned, or
\* the table as it was and None when the INSERT or the commit raised
\* (db_ok false).  AUTOINCREMENT ids count up from 1 and no row is deleted.
insert_form_data(filename, ocr_text, fields, external_fax_id, fax_from_number, fax_to_number, ivs, created_at, db_ok) ==
    IF db_ok
    THEN [rows |-> Append(rows, InsertedRow(Len(rows) + 1, created_at, filename,
                                            ocr_text, fields, external_fax_id,
                                            fax_from_number, fax_to_number, ivs)),
          id |-> Some(Len(rows) + 1)]
    ELSE [rows |-> rows, id |-> None]

\* dict(row) with both columns decrypted, as get_form_by_id and
\* get_all_forms build it; an exception of decrypt_data is not caught.
DecryptedRow(row) ==
    LET decrypted_ocr_text == decrypt_data(row.ocr_text)
        decrypted_extracted_fields == decrypt_data(row.extracted_fields)
    IN  IF decrypted_ocr_text.raised THEN Raised(decrypted_ocr_text.exc)
        ELSE IF decrypted_extracted_fields.raised
             THEN Raised(decrypted_extracted_fields.exc)
        ELSE Returned(Some([row EXCEPT
                 !.ocr_text = decrypted_ocr_text.val,
                 !.extracted_fields = decrypted_extracted_fields.val]))

\* The body of get_form_by_id(form_id), fax_forms holding `table`.
FetchForm(table, form_id) ==
    IF \E i \in 1 .. Len(table) : table[i].id = form_id
    THEN DecryptedRow(table[CHOOSE i \in 1 .. Len(table) : table[i].id = form_id])
    ELSE Returned(None)

get_form_by_id(form_id) == FetchForm(rows, form_id)

\* The orders in which SELECT ... ORDER BY created_at DESC may return the
\* rows: rows of one timestamp come in any order.
RowOrders ==
    {order \in [1 .. Len(rows) -> 1 .. Len(rows)] :
        /\ \A i, j \in 1 .. Len(rows) : i # j => order[i] # order[j]
        /\ \A i, j \in 1 .. Len(rows) :
               i < j => rows[order[i]].created_at >= rows[order[j]].created_at}

\* get_all_forms(), the SELECT having returned the rows in `order`.
get_all_forms(order) ==
    LET forms == [i \in 1 .. Len(order) |-> DecryptedRow(rows[order[i]])] IN
    IF \E i \in 1 .. Len(forms) : forms[i].raised
    THEN Raised(forms[CHOOSE i \in 1 .. Len(forms) : forms[i].raised].exc)
    ELSE Returned(Some([i \in 1 .. Len(forms) |-> Val(forms[i].val)]))

LowerOrEmpty(text) == IF Truthy(text) THEN lower(Val(text)) ELSE << >>

FormMatches(form, keyword_lower) ==
    \/ Contains(LowerOrEmpty(form.ocr_text), keyword_lower)
    \/ Contains(LowerOrEmpty(form.extracted_fields), keyword_lower)

\* The search with the keyword compared as it was given.
search_forms_KeywordAsGiven(keyword, all_forms) ==
    IF all_forms.raised THEN all_forms
    ELSE Returned(Some(SelectSeq(Val(all_forms.val),
                                 LAMBDA form : FormMatches(form, keyword))))

\* search_forms_by_keyword(keyword), its call of get_all_forms() having
\* had the outcome all_forms.
search_forms_by_keyword(keyword, all_forms) ==
    IF all_forms.raised THEN all_forms
    ELSE Returned(Some(SelectSeq(Val(all_forms.val),
                                 LAMBDA form : FormMatches(form, lower(keyword)))))

---------------------------------------------------------------------------
(* app.py: receive_fax *)

MaxRows == 2

Sentinel ==
    Lit(<<"P","r","o","c","e","s","s","e","d"," ","b","y"," ","G","e","m","i",
          "n","i"," ","P","D","F"," ","V","i","s","i","o","n">>)

\* fax_id is uuid4().hex; the numbers are the form's defaults.
FaxId == "fax_id"
FilenameUuid == "received_fax_id.pdf"
FromNumber == "1234567890"
ToNumber == "0987654321"

LogEntry(action, form_id) == [action |-> action, form_id |-> form_id]
Redirect(kind, form_id) == [kind |-> kind, form_id |-> form_id]

\* The request has returned: the finally clause has removed the saved file.
\* calls: the functions the request has called, in order.
Finished(pc, log, response, failed, new_form_id, calls) ==
    [IdleRun EXCEPT !.pc = pc, !.log = log, !.response = response,
                    !.failed = failed, !.new_form_id = new_form_id,
                    !.rows_before = run.rows_before, !.calls = calls]

\* The except clause of receive_fax.
GeneralError(log, failed, new_form_id, calls) ==
    Finished("error",
             Append(log, LogEntry("Simulated fax receive failed (general error)", None)),
             Redirect("index_error", None), failed, new_form_id, calls)

\* What the collaborators may do for the received document; receive_fax
\* does not ask for the Vision API.
ReceiveContentEnvs ==
    [readable : BOOLEAN, configure_ok : BOOLEAN, vision : {Raised("Exception")},
     ocr : OcrOutcomes]
ReceiveServiceOutcomes ==
    {ServiceRaises("transport")}
        \cup {ServiceReplies(r) :
                r \in {ReplyFields, ReplyBlanks, ReplyEmptyMapping, ReplyOwnError,
                       ReplyScalar, ReplyTruncated}}
ReceiveFieldsEnvs == [configure_ok : {TRUE}, service : ReceiveServiceOutcomes]
\* The two IVs os.urandom returns to one insert_form_data.
ReceiveIVs == { << <<13, 7, 62, 1>>, <<0, 0, 0, 0>> >> }

Quiescent == run.pc \in {"idle", "done", "error", "rejected"}

\* POST /fax/receive arrives: without a file it is answered 400, with one
\* the file is saved.
Receive ==
    /\ Quiescent
    /\ Len(rows) < MaxRows
    /\ \E has_file \in BOOLEAN :
        run' = IF has_file
               THEN [IdleRun EXCEPT
                        !.pc = "saved", !.file = TRUE,
                        !.log = << LogEntry("Simulated fax received", None) >>,
                        !.rows_before = Len(rows)]
               ELSE [IdleRun EXCEPT
                        !.pc = "rejected",
                        !.log = << LogEntry("Simulated fax receive failed", None) >>,
                        !.response = Redirect("json_400", None),
                        !.rows_before = Len(rows)]
    /\ UNCHANGED <<AES_KEY, rows, now, audit, call, conns>>

\* extract_content_from_pdf(file_path, use_gemini_pdf=True) and the tests
\* of its status.
ExtractContentStep ==
    /\ run.pc = "saved"
    /\ \E env \in ReceiveContentEnvs :
        LET got == extract_content_from_pdf(env, TRUE, FALSE)
            is_pdf_bytes_for_extraction ==
                got.status = "success" /\ got.content.kind = "bytes"
            calls == Append(run.calls, "extract_content_from_pdf")
        IN  run' =
              IF got.raised THEN GeneralError(run.log, "content", None, calls)
              ELSE IF got.status = "error_file_read"
              THEN Finished("error",
                       Append(run.log,
                              LogEntry("Simulated fax receive failed (file read error)", None)),
                       Redirect("index_error", None), "content", None, calls)
              ELSE IF got.status = "error_google_vision"
              THEN Finished("error",
                       Append(run.log,
                              LogEntry("Simulated fax receive failed (Google Vision error)", None)),
                       Redirect("index_error", None), "content", None, calls)
              ELSE [run EXCEPT
                       !.pc = IF is_pdf_bytes_for_extraction THEN "hint" ELSE "fields",
                       !.content = got.content, !.status = got.status,
                       !.calls = calls,
                       !.is_pdf_bytes = is_pdf_bytes_for_extraction,
                       !.template_hint_text =
                           IF is_pdf_bytes_for_extraction THEN None
                           ELSE Some(got.content.text)]
    /\ UNCHANGED <<AES_KEY, rows, now, audit, call, conns>>

\* The quick OCR for the template hint without the try around it: its
\* exception reaches the except clause of receive_fax.
HintStep_Propagates ==
    /\ run.pc = "hint"
    /\ \E ocr \in OcrOutcomes :
        LET env == [readable |-> TRUE, configure_ok |-> TRUE,
                    vision |-> Raised("Exception"), ocr |-> ocr]
            text == extract_text_from_pdf_tesseract(env)
            calls == Append(run.calls, "extract_text_from_pdf_tesseract")
        IN  run' = IF text.raised THEN GeneralError(run.log, "hint", None, calls)
                   ELSE [run EXCEPT !.pc = "fields", !.calls = calls,
                                    !.template_hint_text = text.val]
    /\ UNCHANGED <<AES_KEY, rows, now, audit, call, conns>>

\* The quick OCR for the template hint; its exception is caught.
HintStep ==
    /\ run.pc = "hint"
    /\ \E ocr \in OcrOutcomes :
        LET env == [readable |-> TRUE, configure_ok |-> TRUE,
                    vision |-> Raised("Exception"), ocr |-> ocr]
            text == extract_text_from_pdf_tesseract(env)
        IN  run' = [run EXCEPT !.pc = "fields",
                               !.calls = Append(@, "extract_text_from_pdf_tesseract"),
                               !.template_hint_text =
                                   IF text.raised THEN None ELSE text.val]
    /\ UNCHANGED <<AES_KEY, rows, now, audit, call, conns>>

\* extract_fields_from_text_or_pdf(...) and the test of its result;
\* .get on a result that is no dict raises AttributeError.
ExtractFieldsStep ==
    /\ run.pc = "fields"
    /\ \E env \in ReceiveFieldsEnvs :
        LET res == extract_fields_from_text_or_pdf(
                       run.content, "default", run.is_pdf_bytes,
                       run.template_hint_text, env)
            extracted_fields == Val(res.ret.val)
            calls == Append(run.calls, "extract_fields_from_text_or_pdf")
        IN  run' =
              IF res.ret.raised THEN GeneralError(run.log, "fields", None, calls)
              ELSE IF extracted_fields.kind # "dict"
              THEN GeneralError(run.log, "fields", None, calls)
              ELSE IF ~PyTruthy(extracted_fields) \/ GetTruthy(extracted_fields, ErrorKey)
              THEN Finished("error",
                       Append(run.log,
                              LogEntry("Simulated fax receive failed (LLM extraction)", None)),
                       Redirect("index_error", None), "fields", None, calls)
              ELSE [run EXCEPT !.pc = "persist", !.template_hint_text = None,
                               !.calls = calls,
                               !.extracted_fields = extracted_fields]
    /\ UNCHANGED <<AES_KEY, rows, now, audit, call, conns>>

\* insert_form_data(...), the audit entry, and the redirect to the new
\* record.  The returned id is not tested: with None, the entry is written
\* with form id None, and url_for('view_form', form_id=None) raises
\* BuildError (the route needs <int:form_id>), which the except clause
\* reports as a general error.
InsertStep ==
    /\ run.pc = "persist"
    /\ \E ivs \in ReceiveIVs, db_ok \in BOOLEAN, elapsed \in {0, 1} :
        LET text_for_db ==
                IF run.is_pdf_bytes THEN Some(Sentinel) ELSE Some(run.content.text)
            done == insert_form_data(FilenameUuid, text_for_db, run.extracted_fields,
                                     FaxId, FromNumber, ToNumber, ivs,
                                     now + elapsed, db_ok)
            new_form_id == done.id
            saved == Append(run.log,
                            LogEntry("Simulated fax processed and saved", new_form_id))
            calls == Append(run.calls, "insert_form_data")
        IN  /\ rows' = done.rows
            /\ now' = IF db_ok THEN now + elapsed ELSE now
            /\ audit' = IF db_ok
                        THEN Append(audit, [ocr_text |-> text_for_db,
                                            fields |-> run.extracted_fields])
                        ELSE audit
            /\ run' = IF IsNone(new_form_id)
                      THEN GeneralError(saved, "insert", new_form_id, calls)
                      ELSE Finished("done", saved,
                                    Redirect("view_form", new_form_id), "", new_form_id,
                                    calls)
    /\ UNCHANGED <<AES_KEY, call, conns>>

Next == Receive \/ ExtractContentStep \/ HintStep \/ ExtractFieldsStep \/ InsertStep

Spec == Init /\ [][Next]_vars

---------------------------------------------------------------------------
(* The store with a damaged column *)

\* Ways in which a stored token may come back damaged from the database
\* file: its last group of symbols lost, or its first symbol changed.
Damaged(token) ==
    { SubSeq(token, 1, Len(token) - 3),
      [token EXCEPT ![1] = SymChar((SymVal(@) + 8) % SymMod)] }

\* The extracted_fields column of a row is damaged; fax_forms is otherwise
\* as insert_form_data left it.
CorruptStoredField ==
    /\ \E i \in 1 .. Len(rows) :
        /\ Truthy(rows[i].extracted_fields)
        /\ ~decrypt_data(rows[i].extracted_fields).raised
        /\ \E token \in Damaged(Val(rows[i].extracted_fields)) :
               rows' = [rows EXCEPT ![i].extracted_fields = Some(token)]
    /\ UNCHANGED <<AES_KEY, now, run, audit, call, conns>>

NextFault == Next \/ CorruptStoredField

SpecFault == Init /\ [][NextFault]_vars

---------------------------------------------------------------------------
(* Claims about receive_fax *)

ErrorOutcome == run.pc = "error" /\ run.response.kind = "index_error"

\* C2: a run of receive_fax in which a stage failed (content extraction
\* returned an error status or raised, field extraction returned an error
\* or a value that is no mapping, or the insert failed) ends in the error
\* outcome, and fax_forms has the rows it had when the run began.
C2_FailureEndsInError ==
    /\ run.failed # "" => ErrorOutcome /\ Len(rows) = run.rows_before
    /\ ErrorOutcome => Len(rows) = run.rows_before

\* A second run whose insert failed, after a first one that stored a row.
C2_Witness ==
    /\ run.failed = "insert"
    /\ ErrorOutcome
    /\ Len(rows) = 1
    /\ run.rows_before = 1

SavedEntries ==
    {i \in 1 .. Len(run.log) : run.log[i].action = "Simulated fax processed and saved"}

\* C3: a run is logged as processed and saved, and its caller sent to the
\* new record, only when insert_form_data has added a row, and the entry
\* and the redirect carry the id of that row; a failed insert leads to
\* neither.
C3_DoneOnlyAfterInsert ==
    /\ \A i \in SavedEntries :
        /\ Len(rows) = run.rows_before + 1
        /\ run.log[i].form_id = Some(rows[Len(rows)].id)
    /\ run.response.kind = "view_form" =>
        /\ Len(rows) = run.rows_before + 1
        /\ run.response.form_id = Some(rows[Len(rows)].id)

---------------------------------------------------------------------------
(* Claims about the store *)

FieldsDamaged(i) ==
    /\ decrypt_data(rows[i].extracted_fields).raised
    /\ ~decrypt_data(rows[i].ocr_text).raised

\* C4: for a row whose extracted_fields token is damaged and whose ocr_text
\* token is sound, get_form_by_id returns the record with the decrypted
\* ocr_text, and get_all_forms returns every record; neither raises.
C4_DecryptFailureIsolated ==
    \A i \in 1 .. Len(rows) :
        FieldsDamaged(i) =>
            /\ LET form == get_form_by_id(rows[i].id) IN
                   /\ ~form.raised
                   /\ Val(form.val).ocr_text = audit[i].ocr_text
            /\ \A order \in RowOrders :
                   LET forms == get_all_forms(order) IN
                       /\ ~forms.raised
                       /\ Len(Val(forms.val)) = Len(rows)

\* C5: each row holds in ocr_text and extracted_fields nothing or a token
\* that is not the plaintext, does not contain it, and decrypts to it; the
\* file name, the fax id and the two numbers are stored as given.
IsTokenOf(column, plaintext) ==
    IF ~Truthy(plaintext) THEN IsNone(column)
    ELSE /\ Truthy(column)
         /\ Val(column) # Val(plaintext)
         /\ ~Contains(Val(column), Val(plaintext))
         /\ \A k \in 1 .. Len(Val(column)) :
                IsSym(Val(column)[k]) \/ Val(column)[k] = PadChar
         /\ decrypt_data(column) = Returned(plaintext)

C5_OnlyTokensStored ==
    \A i \in 1 .. Len(rows) :
        /\ IsTokenOf(rows[i].ocr_text, audit[i].ocr_text)
        /\ IsTokenOf(rows[i].extracted_fields, Some(json_dumps(audit[i].fields)))
        /\ rows[i].filename = FilenameUuid
        /\ rows[i].external_fax_id = FaxId
        /\ rows[i].fax_from_number = FromNumber
        /\ rows[i].fax_to_number = ToNumber

\* Two rows, one stored with the sentinel and one with the OCR text.
C5_Witness ==
    /\ Len(rows) = 2
    /\ \E i, j \in 1 .. 2 :
        /\ audit[i].ocr_text = Some(Sentinel)
        /\ audit[j].ocr_text = Some(OcrText)
    /\ C5_OnlyTokensStored

Keywords ==
    { Lit(<<"o","t","c">>), Lit(<<"O","T","C">>), Lit(<<"p","d","f">>),
      Lit(<<"i","d",":"," ","m">>), Lit(<<"f","a","x","e","s">>), << >> }

\* keyword occurs in text at some position, letters compared without case.
OccursFolded(keyword, text) ==
    \E at \in 0 .. Len(text) - Len(keyword) :
        \A k \in 1 .. Len(keyword) : LowerChar(text[at + k]) = LowerChar(keyword[k])

Matching(i, keyword) ==
    \/ Truthy(audit[i].ocr_text) /\ OccursFolded(keyword, Val(audit[i].ocr_text))
    \/ OccursFolded(keyword, json_dumps(audit[i].fields))

FoundIds(found) == {Val(found.val)[k].id : k \in 1 .. Len(Val(found.val))}

\* C6: search_forms_by_keyword(k) returns the records, and only the
\* records, in whose ocr_text or extracted_fields JSON text k occurs,
\* letters compared without case, each once and with its plaintexts; two
\* keywords that differ only in case have the same result.
C6_SearchExact ==
    \A order \in RowOrders :
        LET all_forms == get_all_forms(order) IN
        \A keyword \in Keywords :
            LET found == search_forms_by_keyword(keyword, all_forms) IN
                /\ ~found.raised
                /\ FoundIds(found) = {rows[i].id : i \in {j \in 1 .. Len(rows) : Matching(j, keyword)}}
                /\ Len(Val(found.val)) = Cardinality(FoundIds(found))
                /\ \A k \in 1 .. Len(Val(found.val)) :
                       LET form == Val(found.val)[k] IN
                           /\ form.ocr_text = audit[form.id].ocr_text
                           /\ form.extracted_fields = Some(json_dumps(audit[form.id].fields))
                /\ \A other \in Keywords :
                       lower(other) = lower(keyword) =>
                           FoundIds(search_forms_by_keyword(other, all_forms)) = FoundIds(found)

\* Two rows; the search for "otc" finds exactly the one whose text has
\* "OTC" in upper case, and the search for "pdf" exactly the other, whose
\* text has "PDF".
C6_Witness ==
    /\ Len(rows) = 2
    /\ \E order \in RowOrders :
        LET all_forms == get_all_forms(order) IN
        \E i, j \in 1 .. 2 :
            /\ i # j
            /\ audit[i].ocr_text = Some(OcrText)
            /\ audit[j].ocr_text = Some(Sentinel)
            /\ FoundIds(search_forms_by_keyword(Lit(<<"o","t","c">>), all_forms)) = {rows[i].id}
            /\ FoundIds(search_forms_by_keyword(Lit(<<"p","d","f">>), all_forms)) = {rows[j].id}

---------------------------------------------------------------------------
(* Claims about insert_form_data *)

RowIds(table) == {table[i].id : i \in 1 .. Len(table)}

\* C12: a call of insert_form_data either appends one row to fax_forms and
\* returns the id of that row, an id no other row has, or it returns the
\* failure value None, which is no id, and leaves fax_forms as it was.
C12_InsertOrFail ==
    [][run.pc = "persist" =>
          \/ /\ ~IsNone(run'.new_form_id)
             /\ Len(rows') = Len(rows) + 1
             /\ SubSeq(rows', 1, Len(rows)) = rows
             /\ rows'[Len(rows')].id = Val(run'.new_form_id)
             /\ Val(run'.new_form_id) \notin RowIds(rows)
          \/ /\ IsNone(run'.new_form_id)
             /\ rows' = rows]_vars

\* A failed insert_form_data on a table that holds a row.
C12_Witness ==
    /\ run.failed = "insert"
    /\ IsNone(run.new_form_id)
    /\ rows # << >>
    /\ RowIds(rows) = {1}

---------------------------------------------------------------------------
(* Direct calls of insert_form_data *)

\* What a caller hands to insert_form_data: an OCR text that is absent,
\* empty or not, and a mapping of fields that is empty or not.
StoreTexts == {None, Some(<< >>), Some(OcrText)}
StoreFields == {Dict(<< >>), Dict(<< <<KeyId, Lit(<<"M">>)>> >>)}
StoreIVs == { << <<13, 7, 62, 1>>, <<0, 0, 0, 0>> >>,
              << <<63, 63, 63, 63>>, <<63, 63, 63, 63>> >> }

\* insert_form_data(filename, ocr_text, fields, ...) called.
InsertFormCall ==
    /\ Len(rows) < MaxRows
    /\ \E ocr_text \in StoreTexts, fields \in StoreFields, ivs \in StoreIVs,
          db_ok \in BOOLEAN, elapsed \in {0, 1} :
        LET done == insert_form_data(FilenameUuid, ocr_text, fields, FaxId,
                                     FromNumber, ToNumber, ivs, now + elapsed, db_ok)
        IN  /\ rows' = done.rows
            /\ now' = IF db_ok THEN now + elapsed ELSE now
            /\ audit' = IF db_ok
                        THEN Append(audit, [ocr_text |-> ocr_text, fields |-> fields])
                        ELSE audit
    /\ UNCHANGED <<AES_KEY, run, call, conns>>

NextStore == InsertFormCall

SpecStore == Init /\ [][NextStore]_vars

\* C14: encrypt_data returns None for an absent and for an empty plaintext,
\* decrypt_data returns None for an absent token, neither raising; a row
\* inserted with an absent or empty ocr_text holds no ocr_text, and
\* get_form_by_id returns it with ocr_text None.
C14_AbsentStaysAbsent ==
    /\ \A iv \in IVs :
           /\ encrypt_data(None, iv) = None
           /\ encrypt_data(Some(<< >>), iv) = None
    /\ decrypt_data(None) = Returned(None)
    /\ \A i \in 1 .. Len(rows) :
           ~Truthy(audit[i].ocr_text) =>
               /\ IsNone(rows[i].ocr_text)
               /\ LET form == get_form_by_id(rows[i].id) IN
                      /\ ~form.raised
                      /\ ~IsNone(form.val)
                      /\ IsNone(Val(form.val).ocr_text)
                      /\ Val(form.val).extracted_fields
                             = Some(json_dumps(audit[i].fields))

\* Two rows, one inserted with the empty text and one with a text.
C14_Witness ==
    /\ Len(rows) = 2
    /\ audit[1].ocr_text = Some(<< >>)
    /\ audit[2].ocr_text = Some(OcrText)
    /\ IsNone(rows[1].ocr_text)
    /\ ~IsNone(rows[2].ocr_text)

---------------------------------------------------------------------------
(* Claims about error statuses *)

LastEntry == run.log[Len(run.log)]
EndedByFileRead ==
    /\ run.log # << >>
    /\ LastEntry.action = "Simulated fax receive failed (file read error)"

\* C16: for a document that cannot be read, extract_content_from_pdf returns
\* status error_file_read under every combination of flags, having called
\* neither the Vision API nor Tesseract; a request whose content extraction
\* returned that status ends in the error outcome having called nothing but
\* extract_content_from_pdf, and fax_forms has the rows it had.
C16_FileReadError ==
    /\ \A env \in ContentEnvs, use_gemini_pdf \in BOOLEAN, use_google_vision \in BOOLEAN :
           ~env.readable =>
               extract_content_from_pdf(env, use_gemini_pdf, use_google_vision)
                   = Extracted(Text(MsgFileRead), "error_file_read", {})
    /\ \A env \in ReceiveContentEnvs :
           ~env.readable =>
               extract_content_from_pdf(env, TRUE, FALSE).status = "error_file_read"
    /\ EndedByFileRead =>
           /\ ErrorOutcome
           /\ run.failed = "content"
           /\ run.calls = << "extract_content_from_pdf" >>
           /\ SavedEntries = {}
           /\ Len(rows) = run.rows_before

\* A second request, ended by the file read error after a first one stored
\* a row.
C16_Witness ==
    /\ EndedByFileRead
    /\ run.calls = << "extract_content_from_pdf" >>
    /\ run.rows_before = 1
    /\ Len(rows) = 1

ContentStatuses ==
    {"success", "success_google_vision", "success_tesseract_fallback",
     "error_file_read", "error_google_vision"}

\* C17: a call of extract_content_from_pdf that asked for the Vision API and
\* whose Vision call failed returns status error_google_vision and has not
\* called Tesseract (the function has no parameter asking for the fallback);
\* every status returned is one of success, success_google_vision,
\* success_tesseract_fallback, error_file_read, error_google_vision.
C17_VisionErrorReported ==
    /\ VisionFailed =>
           /\ ~call.ret.raised
           /\ call.ret.status = "error_google_vision"
           /\ "tesseract" \notin call.ret.used
    /\ (call.op = "extract_content_from_pdf" /\ ~call.ret.raised) =>
           call.ret.status \in ContentStatuses

---------------------------------------------------------------------------
(* Claims about reading the store *)

\* The position of rows[i] in the result of a SELECT that returned `order`.
PositionIn(order, i) == CHOOSE p \in 1 .. Len(rows) : order[p] = i

\* C18: in every order in which get_all_forms may return the rows, every
\* stored row is returned, and of two rows the one inserted later comes
\* first, also when both were inserted in the same second.
C18_NewestFirst ==
    \A order \in RowOrders :
        LET all_forms == get_all_forms(order) IN
        ~all_forms.raised =>
            /\ Len(Val(all_forms.val)) = Len(rows)
            /\ \A i \in 1 .. Len(rows) :
                   Val(all_forms.val)[PositionIn(order, i)].id = rows[i].id
            /\ \A i, j \in 1 .. Len(rows) :
                   i < j => PositionIn(order, j) < PositionIn(order, i)

---------------------------------------------------------------------------
(* Concurrent calls of db.py.  Every call opens its own connection.  SQLite
   lets one connection at a time hold a write transaction; a row inserted
   in a transaction is in the table other connections read once the
   transaction is committed, and a SELECT reads the committed table. *)

InWriteTransaction(p) == conns[p].pc = "inserted"

\* A connection that takes the write lock whoever holds it.
CanWrite_NoLock(p) == TRUE

\* conn.execute(INSERT ...) gets the write lock when no other connection is
\* in a write transaction.
CanWrite(p) == \A q \in Callers \ {p} : ~InWriteTransaction(q)

\* The ids of rows inserted and not committed.
UncommittedIds ==
    {Val(conns[q].lastrowid) : q \in {c \in Callers : InWriteTransaction(c)}}

\* insert_form_data up to conn.execute(INSERT ...): the row is written in
\* the connection's transaction, or the statement raises (the database is
\* locked by another connection, or another error) and None is returned.
ConnExecuteInsert(p) ==
    /\ conns[p].pc = "idle"
    /\ \E ocr_text \in {None, Some(OcrText)}, fields \in StoreFields,
          ivs \in ReceiveIVs, db_ok \in BOOLEAN :
        LET done == insert_form_data(FilenameUuid, ocr_text, fields, FaxId,
                                     FromNumber, ToNumber, ivs, now,
                                     db_ok /\ CanWrite(p))
        IN  conns' = [conns EXCEPT ![p] =
                IF IsNone(done.id)
                THEN [NoConn EXCEPT !.pc = "returned", !.op = "insert_form_data"]
                ELSE [NoConn EXCEPT !.pc = "inserted", !.op = "insert_form_data",
                                    !.row = Some(done.rows[Len(done.rows)]),
                                    !.lastrowid = done.id]]
    /\ UNCHANGED <<AES_KEY, rows, now, run, audit, call>>

\* conn.commit(): the row becomes part of fax_forms; when the commit raises
\* the `with` block rolls the transaction back and None is returned.
ConnCommit(p) ==
    /\ conns[p].pc = "inserted"
    /\ \E db_ok \in BOOLEAN :
        IF db_ok
        THEN /\ rows' = Append(rows, Val(conns[p].row))
             /\ conns' = [conns EXCEPT ![p].pc = "committed"]
        ELSE /\ rows' = rows
             /\ conns' = [conns EXCEPT ![p] =
                    [NoConn EXCEPT !.pc = "returned", !.op = "insert_form_data"]]
    /\ UNCHANGED <<AES_KEY, now, run, audit, call>>

\* inserted_id = cursor.lastrowid; return inserted_id.
ConnReturnId(p) ==
    /\ conns[p].pc = "committed"
    /\ conns' = [conns EXCEPT ![p].pc = "returned",
                              ![p].inserted_id = conns[p].lastrowid]
    /\ UNCHANGED <<AES_KEY, rows, now, run, audit, call>>

\* get_form_by_id(form_id) on its own connection.
ConnGetForm(p) ==
    /\ conns[p].pc = "idle"
    /\ \E form_id \in 1 .. Cardinality(Callers) :
        conns' = [conns EXCEPT ![p] =
            [NoConn EXCEPT !.pc = "returned", !.op = "get_form_by_id",
                           !.form_id = Some(form_id),
                           !.uncommitted = UncommittedIds,
                           !.ret = get_form_by_id(form_id)]]
    /\ UNCHANGED <<AES_KEY, rows, now, run, audit, call>>

\* get_all_forms() on its own connection.
ConnGetAll(p) ==
    /\ conns[p].pc = "idle"
    /\ \E order \in RowOrders :
        conns' = [conns EXCEPT ![p] =
            [NoConn EXCEPT !.pc = "returned", !.op = "get_all_forms",
                           !.uncommitted = UncommittedIds,
                           !.ret = get_all_forms(order)]]
    /\ UNCHANGED <<AES_KEY, rows, now, run, audit, call>>

NextConcurrent ==
    \E p \in Callers :
        \/ ConnExecuteInsert(p)
        \/ ConnCommit(p)
        \/ ConnReturnId(p)
        \/ ConnGetForm(p)
        \/ ConnGetAll(p)

SpecConcurrent == Init /\ [][NextConcurrent]_vars

InsertReturned(p) ==
    /\ conns[p].op = "insert_form_data"
    /\ conns[p].pc = "returned"
    /\ ~IsNone(conns[p].inserted_id)

ReadReturned(p, op) == conns[p].op = op /\ conns[p].pc = "returned"

IsStoredForm(form) ==
    \E i \in 1 .. Len(rows) : DecryptedRow(rows[i]) = Returned(Some(form))

\* C19: of the insert_form_data calls made on concurrent connections, each
\* one that returned an id returned an id no other call returned, and
\* fax_forms has exactly one row of that id, the row that call wrote; a
\* get_form_by_id or get_all_forms call made meanwhile returned only whole
\* committed rows, and none of the rows that were uncommitted when it read.
C19_ConcurrentInserts ==
    /\ \A p \in Callers :
           InsertReturned(p) =>
               /\ Cardinality({i \in 1 .. Len(rows) :
                                   rows[i].id = Val(conns[p].inserted_id)}) = 1
               /\ \A i \in 1 .. Len(rows) :
                      rows[i].id = Val(conns[p].inserted_id)
                          => rows[i] = Val(conns[p].row)
               /\ \A q \in Callers \ {p} :
                      InsertReturned(q) => conns[q].inserted_id # conns[p].inserted_id
    /\ \A p \in Callers :
           ReadReturned(p, "get_form_by_id") =>
               /\ ~conns[p].ret.raised
               /\ \/ IsNone(conns[p].ret.val)
                  \/ /\ IsStoredForm(Val(conns[p].ret.val))
                     /\ Val(conns[p].ret.val).id = Val(conns[p].form_id)
               /\ Val(conns[p].form_id) \in conns[p].uncommitted
                      => IsNone(conns[p].ret.val)
    /\ \A p \in Callers :
           ReadReturned(p, "get_all_forms") =>
               /\ ~conns[p].ret.raised
               /\ \A k \in 1 .. Len(Val(conns[p].ret.val)) :
                      /\ IsStoredForm(Val(conns[p].ret.val)[k])
                      /\ Val(conns[p].ret.val)[k].id \notin conns[p].uncommitted

\* Two inserts that overlapped the third caller's get_form_by_id: the read
\* asked for the id of a row not yet committed and found nothing, and both
\* inserts then returned.
C19_Witness ==
    /\ InsertReturned(1)
    /\ InsertReturned(2)
    /\ ReadReturned(3, "get_form_by_id")
    /\ conns[3].uncommitted # {}
    /\ Val(conns[3].form_id) \in conns[3].uncommitted
    /\ Len(rows) = 2

---------------------------------------------------------------------------
(* receive_fax requests with reads of the store between them *)

SearchKeywords == { Lit(<<"o","t","c">>), Lit(<<"p","d","f">>) }

\* A read called between requests, from any state of the store.
ReadCall(op, arg, ret) ==
    /\ Quiescent
    /\ call.op = "none"
    /\ call' = [op |-> op, arg |-> arg, ret |-> ret]
    /\ UNCHANGED <<AES_KEY, rows, now, run, audit, conns>>

\* get_form_by_id(form_id) called.
GetFormCall ==
    \E form_id \in 1 .. MaxRows :
        ReadCall("get_form_by_id", form_id, get_form_by_id(form_id))

\* get_all_forms() called; the SELECT returned the rows in `order`.
GetAllFormsCall(order, all_forms) ==
    ReadCall("get_all_forms", order, all_forms)

\* search_forms_by_keyword(keyword) called; its call of get_all_forms()
\* returned all_forms.
SearchFormsCall(all_forms) ==
    \E keyword \in SearchKeywords :
        ReadCall("search_forms_by_keyword", keyword,
                 search_forms_by_keyword(keyword, all_forms))

\* A behaviour is a sequence of requests that ends with a read: a read
\* changes nothing that a request reads.
NextRecords ==
    \/ call.op = "none" /\ Next
    \/ GetFormCall
    \/ \E order \in RowOrders :
           \E all_forms \in {get_all_forms(order)} :
               \/ GetAllFormsCall(order, all_forms)
               \/ SearchFormsCall(all_forms)

SpecRecords == Init /\ [][NextRecords]_vars

\* C20: no step of a receive_fax request and no call of get_form_by_id,
\* get_all_forms or search_forms_by_keyword removes a row of fax_forms or
\* changes a column of one: the rows there before the step are there after
\* it, in place, with the same id, filename, ocr_text, extracted_fields,
\* created_at, external_fax_id, fax_from_number and fax_to_number.
C20_RowsNeverChange ==
    [][/\ Len(rows') >= Len(rows)
       /\ \A i \in 1 .. Len(rows) : rows'[i] = rows[i]]_vars

\* Two stored rows, the first written by an earlier request, and a search
\* that found a row after the second was inserted.
C20_Witness ==
    /\ Len(rows) = 2
    /\ run.pc = "done"
    /\ call.op = "search_forms_by_keyword"
    /\ ~call.ret.raised
    /\ Len(Val(call.ret.val)) = 1

---------------------------------------------------------------------------
(* Claims about what a request stores *)

\* The mappings the service may return to a request.
ServiceMappings ==
    {Dict(MappingOf(out.text)) :
        out \in {o \in ReceiveServiceOutcomes :
                    o.kind = "reply" /\ o.text \in MappingReplies}}

\* C21: when the insert step of a request ends it in done with id i, then
\* get_form_by_id(i), called on the table the step leaves, returns a record whose
\* extracted_fields is a JSON text that json.loads decodes to the mapping
\* the field extractor returned to the request, one of the service's
\* mappings, and whose ocr_text is the extracted text, or the sentinel
\* when the content was the document's bytes.
C21_StoredAsExtracted ==
    [][(run.pc = "persist" /\ run'.pc = "done") =>
          \E form_id \in 1 .. MaxRows :
              LET form == FetchForm(rows', form_id) IN
                  /\ run'.new_form_id = Some(form_id)
                  /\ ~form.raised
                  /\ ~IsNone(form.val)
                  /\ Val(form.val).id = form_id
                  /\ run.extracted_fields \in ServiceMappings
                  /\ json_loads(Val(Val(form.val).extracted_fields))
                         = Returned(Some(run.extracted_fields))
                  /\ Val(form.val).ocr_text
                         = Some(IF run.is_pdf_bytes THEN Sentinel ELSE run.content.text)]_vars

\* A request whose content was bytes stored row 1, and a request whose
\* content was OCR text has just stored row 2 with a mapping of two items.
C21_Witness ==
    /\ run.pc = "done"
    /\ run.new_form_id = Some(2)
    /\ Len(rows) = 2
    /\ audit[1].ocr_text = Some(Sentinel)
    /\ audit[2].ocr_text = Some(OcrText)
    /\ Len(audit[2].fields.items) = 2

---------------------------------------------------------------------------
(* Temporary files *)

MaxPages == 2

\* The `with tempfile.TemporaryDirectory() as path:` block that leaves the
\* directory behind at its exit.
WithExit_KeepsDirectory(c, ret) == [c EXCEPT !.pc = "returned", !.ret = ret]

\* The exit of the `with tempfile.TemporaryDirectory() as path:` block, by
\* return or by exception: the directory and the page images in it are
\* removed.  written is kept: the number of page images the call wrote.
WithExit(c, ret) ==
    [c EXCEPT !.pc = "returned", !.path = FALSE, !.images = 0, !.ret = ret]

\* extract_text_from_pdf_tesseract(pdf_path) called on a document of
\* `pages` pages: the temporary directory is made.
TesseractEnter ==
    /\ Quiescent
    /\ call.op = "none"
    /\ \E pages \in 1 .. MaxPages :
        call' = [op |-> "extract_text_from_pdf_tesseract", pc |-> "convert",
                 path |-> TRUE, pages |-> pages, images |-> 0, written |-> 0,
                 i |-> 0, text |-> << >>, ret |-> Returned(None)]
    /\ UNCHANGED <<AES_KEY, rows, now, run, audit, conns>>

\* convert_from_path(pdf_path, dpi=dpi, output_folder=path) writes the page
\* images into the directory, or raises having written some of them.
TesseractConvert ==
    /\ call.op = "extract_text_from_pdf_tesseract"
    /\ call.pc = "convert"
    /\ \E ok \in BOOLEAN, k \in 0 .. call.pages :
        call' = IF ok
                THEN [call EXCEPT !.pc = "ocr", !.images = call.pages,
                                  !.written = call.pages]
                ELSE WithExit([call EXCEPT !.images = k, !.written = k],
                              Raised("Exception"))
    /\ UNCHANGED <<AES_KEY, rows, now, run, audit, conns>>

\* One turn of the loop: pytesseract.image_to_string on the next image
\* returns its text, or raises.
TesseractOcrPage ==
    /\ call.op = "extract_text_from_pdf_tesseract"
    /\ call.pc = "ocr"
    /\ call.i < call.images
    /\ \E ok \in BOOLEAN :
        call' = IF ok
                THEN [call EXCEPT !.i = @ + 1, !.text = @ \o OcrText]
                ELSE WithExit(call, Raised("Exception"))
    /\ UNCHANGED <<AES_KEY, rows, now, run, audit, conns>>

\* The loop is over: the block is left and the text returned.
TesseractReturn ==
    /\ call.op = "extract_text_from_pdf_tesseract"
    /\ call.pc = "ocr"
    /\ call.i = call.images
    /\ call' = WithExit(call, Returned(Some(call.text)))
    /\ UNCHANGED <<AES_KEY, rows, now, run, audit, conns>>

NextArtifacts ==
    \/ call.op = "none" /\ Next
    \/ TesseractEnter
    \/ TesseractConvert
    \/ TesseractOcrPage
    \/ TesseractReturn

SpecArtifacts == Init /\ [][NextArtifacts]_vars

---------------------------------------------------------------------------
(* Claims about the image-native path *)

\* The request holds the result of extract_content_from_pdf.
HasContent == run.pc \in {"hint", "fields", "persist"}

\* C23: for a readable document, with the key set and genai.configure
\* returning, extract_content_from_pdf asked for the LLM's own reading
\* returns the document's bytes with status success and has called neither
\* the Vision API nor Tesseract, whether or not the Vision API was asked
\* for too; receive_fax takes the content as binary exactly when the status
\* is success and the content is bytes, and only then runs the quick OCR
\* for the hint.
C23_BytesWhenConfigured ==
    /\ \A env \in ContentEnvs, use_google_vision \in BOOLEAN :
           (GEMINI_API_KEY /\ env.readable /\ env.configure_ok) =>
               extract_content_from_pdf(env, TRUE, use_google_vision)
                   = Extracted(PdfBytes, "success", {})
    /\ HasContent =>
           run.is_pdf_bytes = (run.status = "success" /\ run.content.kind = "bytes")
    /\ run.pc = "hint" => run.is_pdf_bytes
    /\ (HasContent /\ \E i \in 1 .. Len(run.calls) :
                          run.calls[i] = "extract_text_from_pdf_tesseract")
           => run.is_pdf_bytes

\* A first request stored a row for content taken as bytes; the second holds
\* text with status success, from Tesseract, and does not take it as binary.
C23_Witness ==
    /\ Len(rows) = 1
    /\ audit[1].ocr_text = Some(Sentinel)
    /\ run.pc = "fields"
    /\ run.status = "success"
    /\ run.content = Text(OcrText)
    /\ ~run.is_pdf_bytes

\* The mapping has an item, and no "error" item other than null.
HasFieldsAndNoError(d) ==
    /\ d.kind = "dict"
    /\ d.items # << >>
    /\ \A i \in 1 .. Len(d.items) :
           d.items[i][1] = ErrorKey => d.items[i][2] = JsonNull

\* C24: the step of receive_fax that calls the field extractor either ends
\* the request in the error outcome, with fax_forms as it was and
\* insert_form_data not called, or goes on to the insert with a mapping that
\* has an item and no truthy "error"; so an empty mapping and a mapping with
\* a truthy "error" end the request in error, and every mapping that was
\* stored has an item and no truthy "error".
C24_FailureNotStored ==
    /\ [](\A i \in 1 .. Len(audit) : HasFieldsAndNoError(audit[i].fields))
    /\ [][run.pc = "fields" =>
            /\ run'.pc \in {"persist", "error"}
            /\ run'.pc = "persist" => HasFieldsAndNoError(run'.extracted_fields)
            /\ run'.pc = "error" =>
                   /\ rows' = rows
                   /\ audit' = audit
                   /\ \A i \in 1 .. Len(run'.calls) :
                          run'.calls[i] # "insert_form_data"]_vars

\* The service can answer with the empty mapping and with a mapping that
\* has an "error"; a second request has ended in the extraction failure
\* after a first one stored a row.
C24_Witness ==
    /\ \A reply \in {ReplyEmptyMapping, ReplyOwnError} :
           /\ ServiceReplies(reply) \in ReceiveServiceOutcomes
           /\ LET res == extract_fields_from_text_or_pdf(
                             PdfBytes, "default", TRUE, None,
                             [configure_ok |-> TRUE, service |-> ServiceReplies(reply)])
              IN  /\ ~res.ret.raised
                  /\ Val(res.ret.val).kind = "dict"
                  /\ ~HasFieldsAndNoError(Val(res.ret.val))
    /\ run.pc = "error"
    /\ run.failed = "fields"
    /\ run.log[Len(run.log)].action = "Simulated fax receive failed (LLM extraction)"
    /\ run.rows_before = 1
    /\ Len(rows) = 1

\* The request took the content as binary and stands before the field
\* extraction without a hint: the quick OCR raised.
HintFailed ==
    /\ run.pc = "fields"
    /\ run.is_pdf_bytes
    /\ IsNone(run.template_hint_text)

\* C25: no outcome of the quick OCR ends the request: the step after it is
\* the field extraction.  When the quick OCR raised, the request has no
\* failure and no hint, the field extractor is called with template
\* "default" and resolves it to "default", the generic schema, whatever the
\* service does, and the extractor can return a mapping with an item and
\* no truthy "error", which receive_fax hands to the insert; the
\* insert of a request that got there returns an id when the database
\* works, which ends the request in done.
C25_HintFailureTolerated ==
    /\ run.pc = "hint" =>
           /\ ENABLED (HintStep /\ IsNone(run'.template_hint_text))
           /\ ~ ENABLED (HintStep /\ run'.pc # "fields")
    /\ HintFailed =>
           /\ run.failed = ""
           /\ run.file
           /\ run.log = << LogEntry("Simulated fax received", None) >>
           /\ \A env \in ReceiveFieldsEnvs :
                  LET res == extract_fields_from_text_or_pdf(
                                 run.content, "default", run.is_pdf_bytes,
                                 run.template_hint_text, env)
                  IN  /\ ~IsNone(res.request)
                      /\ Val(res.request).template = "default"
                      /\ Val(res.request).schema = "Unknown/Default"
           /\ \E env \in ReceiveFieldsEnvs :
                  LET res == extract_fields_from_text_or_pdf(
                                 run.content, "default", run.is_pdf_bytes,
                                 run.template_hint_text, env)
                  IN  /\ ~res.ret.raised
                      /\ HasFieldsAndNoError(Val(res.ret.val))
    /\ run.pc = "persist" =>
           \A ivs \in ReceiveIVs :
               ~IsNone(insert_form_data(
                           FilenameUuid,
                           IF run.is_pdf_bytes THEN Some(Sentinel)
                           ELSE Some(run.content.text),
                           run.extracted_fields, FaxId, FromNumber, ToNumber,
                           ivs, now, TRUE).id)

\* The quick OCR of a second request has raised, after a first request
\* stored a row: the request stands before the field extraction.
C25_Witness ==
    /\ HintFailed
    /\ run.calls = << "extract_content_from_pdf", "extract_text_from_pdf_tesseract" >>
    /\ Len(rows) = 1

=============================================================================
